---- MODULE Spec2Model ----
(***************************************************************************)
(* A model of the two collectors of src/inputs/mtail/mtail.go:             *)
(*   - the mtail instance (package mtail, lines 1-230): Init/Drop and the  *)
(*     Gather that flattens a registry snapshot into samples;              *)
(*   - the github instance (package github, lines 232-448): the Gather     *)
(*     that fans out one goroutine per configured repository.              *)
(*                                                                         *)
(* A float64 is Num(t), the number t/10 (Num(5) is 0.5, Num(30) is 3), or  *)
(* one of the two distinguished values NaN and Inf (+Inf).  An unsigned    *)
(* count c becomes the float ToFloat(c) = Num(10 * c).                     *)
(***************************************************************************)
EXTENDS Integers, Sequences, FiniteSets, TLC

VARIABLES
    \* ---- mtail instance: configuration and one tick of Gather
    NamePrefix,     \* ins.NamePrefix
    Labels,         \* ins.Labels (config.InstanceConfig), the static tags
    reg,            \* what the registry ins.m delivers to the next Gather
    slist,          \* the SampleList handed to Gather, in push order
    origin,         \* history: origin[i] = <<family, metric>> that pushed slist[i]
    gathered,       \* "none" | "ok" | "err": how the last Gather ended
    \* ---- mtail instance: Init / Drop
    cfgEmpty,       \* len(ins.Progs) == 0 || len(ins.Logs) == 0
    cancel,         \* ins.cancel: Nil or the context it cancels
    ctx,            \* ins.ctx: Nil or a context id
    cancelled,      \* the set of context ids that have been cancelled
    m,              \* ins.m: Nil or the context the registry was built on
    calls,          \* history: the Init and Drop calls made, with their outcomes
    \* ---- github instance: one tick of Gather
    Repositories,   \* ins.Repositories
    AdditionalFields, \* ins.AdditionalFields
    githubClient,   \* ins.githubClient: Nil or "client"
    returned,       \* whether the Gather call of this tick has returned
    wg,             \* the counter of the tick's sync.WaitGroup
    task,           \* task[i]: the goroutine launched for Repositories[i]
    sink,           \* the SampleList handed to Gather: what was pushed, in order
    gatherLog       \* what Gather itself logged

mtailVars == <<NamePrefix, Labels, reg, slist, origin, gathered>>
lifeVars == <<cfgEmpty, cancel, ctx, cancelled, m, calls>>
githubVars == <<Repositories, AdditionalFields, githubClient, returned, wg,
                task, sink, gatherLog>>
vars == <<mtailVars, lifeVars, githubVars>>

\* a nil string-valued handle (cancel, ctx, client)
Nil == "nil"

\* a nil pointer to a dto payload (m.Gauge, m.Summary, ...)
NilPtr == [nil |-> TRUE]

\* float64 values
Num(t) == [kind |-> "num", tenths |-> t]
NaN == [kind |-> "nan"]
Inf == [kind |-> "inf"]

-----------------------------------------------------------------------------
(* Bounds of the model.                                                    *)

MaxQuantiles == 2
MaxBuckets == 2
\* the number of Init and Drop calls followed
MaxCalls == 5
\* the longest ins.Repositories and ins.AdditionalFields configured
MaxRepos == 2
MaxFields == 2

-----------------------------------------------------------------------------
(* Helpers for sequences and maps.                                         *)

SeqsUpTo(S, n) == UNION {[1..k -> S] : k \in 0..n}

EmptyMap == <<>>

\* a map literal with one or two pairs
Map1(k, v) == k :> v
Map2(k1, v1, k2, v2) == (k1 :> v1) @@ (k2 :> v2)

\* over laid on base: the keys of over win
Overlay(base, over) == over @@ base

\* strings.HasPrefix(s, prefix)
HasPrefix(s, prefix) ==
    /\ Len(prefix) <= Len(s)
    /\ SubSeq(s, 1, Len(prefix)) = prefix

\* float64(c) of an unsigned count c
ToFloat(c) == Num(10 * c)

\* fmt.Sprint(f) of a float64 f: the shortest decimal that reads back as f
Sprint(f) ==
    IF f = Inf THEN "+Inf"
    ELSE IF f = NaN THEN "NaN"
    ELSE IF f.tenths % 10 = 0 THEN ToString(f.tenths \div 10)
    ELSE ToString(f.tenths \div 10) \o "." \o ToString(f.tenths % 10)

\* math.IsNaN(f)
IsNaN(f) == f = NaN

-----------------------------------------------------------------------------
(* The collaborators of package mtail that live outside src/:              *)
(* prom.BuildMetric, types.NewSample and SampleList.PushFront.             *)

\* prom.BuildMetric(prefix, name[, suffix]): prefix, then name, then "_" and
\* the suffix when there is one.
BuildMetric(prefix, name, suffix) ==
    prefix \o name \o (IF suffix = "" THEN "" ELSE "_" \o suffix)

RECURSIVE Layer(_, _)
Layer(acc, labels) ==
    IF labels = <<>> THEN acc
    ELSE Layer(Overlay(acc, Head(labels)), Tail(labels))

\* types.NewSample(prefix, metric, value, labels...): the label maps are laid
\* over one another in the order given, into a map of the sample's own.
NewSample(prefix, metric, value, labels) ==
    [Metric |-> prefix \o metric, Value |-> value, Labels |-> Layer(EmptyMap, labels)]

\* slist.PushFront(s): the sink is append-only; the model keeps push order.
PushFront(sl, s) == Append(sl, s)

-----------------------------------------------------------------------------
(* dto getters: each is nil-safe and returns the zero value on nil.        *)

GetValue(x) == IF x = NilPtr THEN Num(0) ELSE x.Value
GetSampleCount(x) == IF x = NilPtr THEN 0 ELSE x.SampleCount
GetSampleSum(x) == IF x = NilPtr THEN Num(0) ELSE x.SampleSum
GetQuantiles(x) == IF x = NilPtr THEN <<>> ELSE x.Quantile
GetBuckets(x) == IF x = NilPtr THEN <<>> ELSE x.Bucket

-----------------------------------------------------------------------------
(* package mtail: the flattening strategies.                               *)

\* Instance.makeLabels(m)
makeLabels(p, metric) ==
    [key \in DOMAIN p.Labels |-> p.Labels[key]]

RECURSIVE PushQuantiles(_, _, _, _, _)
PushQuantiles(sl, qs, namePrefix, tags, metricName) ==
    IF qs = <<>> THEN sl
    ELSE LET q == Head(qs)
         IN PushQuantiles(
                PushFront(sl, NewSample("", BuildMetric(namePrefix, metricName, ""),
                                        q.Value,
                                        <<tags, Map1("quantile", Sprint(q.Quantile))>>)),
                Tail(qs), namePrefix, tags, metricName)

\* SuffixedPrefix without the strings.HasPrefix test
SuffixedPrefixAlways(p, metricName) == p.NamePrefix

\* the namePrefix that HandleSummary and HandleHistogram compute
SuffixedPrefix(p, metricName) ==
    IF ~HasPrefix(metricName, p.NamePrefix) THEN p.NamePrefix ELSE ""

\* Instance.HandleSummary(m, tags, metricName, slist)
HandleSummary(p, metric, tags, metricName, sl) ==
    LET namePrefix == SuffixedPrefix(p, metricName)
        s1 == PushFront(sl, NewSample("", BuildMetric(namePrefix, metricName, "count"),
                                      ToFloat(GetSampleCount(metric.Summary)), <<tags>>))
        s2 == PushFront(s1, NewSample("", BuildMetric(namePrefix, metricName, "sum"),
                                      GetSampleSum(metric.Summary), <<tags>>))
    IN PushQuantiles(s2, GetQuantiles(metric.Summary), namePrefix, tags, metricName)

RECURSIVE PushBuckets(_, _, _, _, _)
PushBuckets(sl, bs, namePrefix, tags, metricName) ==
    IF bs = <<>> THEN sl
    ELSE LET b == Head(bs)
             le == Sprint(b.UpperBound)
             value == ToFloat(b.CumulativeCount)
         IN PushBuckets(
                PushFront(sl, NewSample("", BuildMetric(namePrefix, metricName, "bucket"),
                                        value, <<tags, Map1("le", le)>>)),
                Tail(bs), namePrefix, tags, metricName)

\* HistogramHead without the push of the synthetic bucket
HistogramHeadNoInf(sl, metric, namePrefix, tags, metricName) ==
    LET s1 == PushFront(sl, NewSample("", BuildMetric(namePrefix, metricName, "count"),
                                      ToFloat(GetSampleCount(metric.Histogram)), <<tags>>))
    IN PushFront(s1, NewSample("", BuildMetric(namePrefix, metricName, "sum"),
                               GetSampleSum(metric.Histogram), <<tags>>))

\* the three samples HandleHistogram pushes before the declared buckets
HistogramHead(sl, metric, namePrefix, tags, metricName) ==
    LET s1 == PushFront(sl, NewSample("", BuildMetric(namePrefix, metricName, "count"),
                                      ToFloat(GetSampleCount(metric.Histogram)), <<tags>>))
        s2 == PushFront(s1, NewSample("", BuildMetric(namePrefix, metricName, "sum"),
                                      GetSampleSum(metric.Histogram), <<tags>>))
    IN PushFront(s2, NewSample("", BuildMetric(namePrefix, metricName, "bucket"),
                               ToFloat(GetSampleCount(metric.Histogram)),
                               <<tags, Map1("le", "+Inf")>>))

\* Instance.HandleHistogram(m, tags, metricName, slist)
HandleHistogram(p, metric, tags, metricName, sl) ==
    LET namePrefix == SuffixedPrefix(p, metricName)
    IN PushBuckets(HistogramHead(sl, metric, namePrefix, tags, metricName),
                   GetBuckets(metric.Histogram), namePrefix, tags, metricName)

\* getNameAndValue without the math.IsNaN tests
getNameAndValueKeepNaN(metric, metricName) ==
    IF metric.Gauge # NilPtr THEN Map1(metricName, GetValue(metric.Gauge))
    ELSE IF metric.Counter # NilPtr THEN Map1(metricName, GetValue(metric.Counter))
    ELSE IF metric.Untyped # NilPtr THEN Map1(metricName, GetValue(metric.Untyped))
    ELSE EmptyMap

\* getNameAndValue(m, metricName): the map of fields, empty or one entry
getNameAndValue(metric, metricName) ==
    IF metric.Gauge # NilPtr
    THEN IF ~IsNaN(GetValue(metric.Gauge))
         THEN Map1(metricName, GetValue(metric.Gauge)) ELSE EmptyMap
    ELSE IF metric.Counter # NilPtr
    THEN IF ~IsNaN(GetValue(metric.Counter))
         THEN Map1(metricName, GetValue(metric.Counter)) ELSE EmptyMap
    ELSE IF metric.Untyped # NilPtr
    THEN IF ~IsNaN(GetValue(metric.Untyped))
         THEN Map1(metricName, GetValue(metric.Untyped)) ELSE EmptyMap
    ELSE EmptyMap

\* the name handleGaugeCounter gives the field called metric
GaugeName(p, metric) ==
    IF ~HasPrefix(metric, p.NamePrefix)
    THEN BuildMetric(p.NamePrefix, metric, "")
    ELSE BuildMetric("", metric, "")

\* Instance.handleGaugeCounter(m, tags, metricName, slist); the map it ranges
\* over holds at most one field, so the range has one order.
handleGaugeCounter(p, metric, tags, metricName, sl) ==
    LET fields == getNameAndValue(metric, metricName)
    IN IF DOMAIN fields = {} THEN sl
       ELSE LET name == CHOOSE k \in DOMAIN fields : TRUE
            IN PushFront(sl, NewSample("", GaugeName(p, name), fields[name], <<tags>>))

\* the body of Gather's inner loop: the dispatch on the family's type
Dispatch(p, mf, metric, sl) ==
    LET metricName == mf.Name
        tags == makeLabels(p, metric)
    IN IF mf.Type = "SUMMARY" THEN HandleSummary(p, metric, tags, metricName, sl)
       ELSE IF mf.Type = "HISTOGRAM" THEN HandleHistogram(p, metric, tags, metricName, sl)
       ELSE handleGaugeCounter(p, metric, tags, metricName, sl)

\* the instance as the methods see it
ins == [NamePrefix |-> NamePrefix, Labels |-> Labels]

RECURSIVE GatherMetrics(_, _, _, _, _)
\* the inner loop of Gather over mf.Metric, from metric mi on; acc is the
\* sample list with the origin of each of its samples
GatherMetrics(p, mfs, fi, mi, acc) ==
    IF mi > Len(mfs[fi].Metric) THEN acc
    ELSE LET sl == Dispatch(p, mfs[fi], mfs[fi].Metric[mi], acc.sl)
             pushed == Len(sl) - Len(acc.sl)
         IN GatherMetrics(p, mfs, fi, mi + 1,
                [sl |-> sl, org |-> acc.org \o [i \in 1..pushed |-> <<fi, mi>>]])

RECURSIVE GatherFamilies(_, _, _, _)
\* the outer loop of Gather over mfs, from family fi on
GatherFamilies(p, mfs, fi, acc) ==
    IF fi > Len(mfs) THEN acc
    ELSE GatherFamilies(p, mfs, fi + 1, GatherMetrics(p, mfs, fi, 1, acc))

-----------------------------------------------------------------------------
(* What the registry can deliver: families whose metrics carry the payload *)
(* of the family's type, as the registry's Gather checks.  GAUGE_HISTOGRAM *)
(* is the one type of dto.MetricType that Gather does not name; its        *)
(* metrics carry a histogram.  A sum or a quantile may be NaN (a summary   *)
(* without observations reports NaN quantiles), and the declared buckets   *)
(* may hold one of upper bound +Inf (dto.Histogram: "+Inf bucket is        *)
(* optional").  Family names are never empty.                              *)

Types == {"COUNTER", "GAUGE", "SUMMARY", "UNTYPED", "HISTOGRAM", "GAUGE_HISTOGRAM"}
PlainTypes == {"COUNTER", "GAUGE", "UNTYPED"}

MetricNames == {"rq", "p_rq", "p"}
Prefixes == {"", "p_"}
StaticLabelSets == {EmptyMap, Map1("job", "s"), Map2("le", "s", "quantile", "s")}
UpstreamLabelSets == {EmptyMap, Map2("job", "u", "prog", "u"), Map2("le", "u", "quantile", "u")}

PlainValues == {NaN, Num(0), Num(15)}
Counts == {0, 3}
Sums == {NaN, Num(34)}
Quantiles == [Quantile : {Num(5), Num(10)}, Value : {NaN, Num(15)}]
Buckets == [UpperBound : {Num(5), Inf}, CumulativeCount : {1, 3}]

NoPayload ==
    [Gauge |-> NilPtr, Counter |-> NilPtr, Untyped |-> NilPtr,
     Summary |-> NilPtr, Histogram |-> NilPtr]

Payloads(type, maxQ, maxB) ==
    CASE type = "GAUGE" -> {[NoPayload EXCEPT !.Gauge = [Value |-> v]] : v \in PlainValues}
      [] type = "COUNTER" -> {[NoPayload EXCEPT !.Counter = [Value |-> v]] : v \in PlainValues}
      [] type = "UNTYPED" -> {[NoPayload EXCEPT !.Untyped = [Value |-> v]] : v \in PlainValues}
      [] type = "SUMMARY" ->
            {[NoPayload EXCEPT !.Summary = [SampleCount |-> c, SampleSum |-> s, Quantile |-> q]] :
                c \in Counts, s \in Sums, q \in SeqsUpTo(Quantiles, maxQ)}
      [] OTHER ->
            {[NoPayload EXCEPT !.Histogram = [SampleCount |-> c, SampleSum |-> s, Bucket |-> b]] :
                c \in Counts, s \in Sums, b \in SeqsUpTo(Buckets, maxB)}

MetricsOf(type, labelSets, maxQ, maxB) ==
    {[Label |-> l] @@ pl : l \in labelSets, pl \in Payloads(type, maxQ, maxB)}

\* a snapshot of one family with one metric, over the whole domain
SingleSnapshots ==
    UNION {{<<[Name |-> n, Type |-> t, Metric |-> <<x>>]>> :
                n \in MetricNames,
                x \in MetricsOf(t, UpstreamLabelSets, MaxQuantiles, MaxBuckets)} :
           t \in Types}

\* families of two metrics: the second is a fixed one of the family's type
SecondMetric(type) ==
    CHOOSE x \in MetricsOf(type, {Map2("job", "u", "prog", "u")}, 1, 1) :
        /\ type \in PlainTypes => GetValue(x.Gauge) # NaN /\ GetValue(x.Counter) # NaN
                                  /\ GetValue(x.Untyped) # NaN
        /\ type = "SUMMARY" => Len(x.Summary.Quantile) = 1
        /\ type \in {"HISTOGRAM", "GAUGE_HISTOGRAM"} => Len(x.Histogram.Bucket) = 1

PairFamilies ==
    UNION {{[Name |-> n, Type |-> t, Metric |-> <<x, SecondMetric(t)>>] :
                n \in {"rq", "p_rq"}, x \in MetricsOf(t, {EmptyMap}, 0, 0)} :
           t \in Types}

\* snapshots of two families of two metrics each
PairSnapshots == {<<f, g>> : f \in PairFamilies, g \in PairFamilies}

Snapshots == {<<>>} \cup SingleSnapshots \cup PairSnapshots

-----------------------------------------------------------------------------
(* The values the variables of the other instances keep under a            *)
(* specification that does not move them.                                  *)

LifeIdle ==
    /\ cfgEmpty = FALSE /\ cancel = Nil /\ ctx = Nil /\ cancelled = {}
    /\ m = Nil /\ calls = <<>>

GithubIdle ==
    /\ Repositories = <<>> /\ AdditionalFields = <<>> /\ githubClient = Nil
    /\ returned = FALSE /\ wg = 0 /\ task = <<>> /\ sink = <<>>
    /\ gatherLog = <<>>

MtailIdle ==
    /\ NamePrefix = "" /\ Labels = EmptyMap /\ reg = <<>> /\ slist = <<>>
    /\ origin = <<>> /\ gathered = "none"

-----------------------------------------------------------------------------
(* Spec: an initialised mtail instance and its Gather.                     *)

Init ==
    /\ NamePrefix \in Prefixes
    /\ Labels \in StaticLabelSets
    /\ reg \in Snapshots
    /\ slist = <<>>
    /\ origin = <<>>
    /\ gathered = "none"
    /\ LifeIdle
    /\ GithubIdle

\* Gather, the snapshot succeeding: every metric of every family is flattened
\* into the sample list of this tick
GatherOk ==
    LET out == GatherFamilies(ins, reg, 1, [sl |-> <<>>, org |-> <<>>])
    IN /\ slist' = out.sl
       /\ origin' = out.org
       /\ gathered' = "ok"
       /\ UNCHANGED <<NamePrefix, Labels, reg>>

\* Gather, the snapshot failing: the error is logged and nothing is pushed
GatherErr ==
    /\ slist' = <<>>
    /\ origin' = <<>>
    /\ gathered' = "err"
    /\ UNCHANGED <<NamePrefix, Labels, reg>>

Gather ==
    /\ \/ GatherOk
       \/ GatherErr
    /\ UNCHANGED <<lifeVars, githubVars>>

Next == Gather

Spec == Init /\ [][Next]_vars

-----------------------------------------------------------------------------
(* Reading the outcome of a Gather.                                        *)

\* the metrics of the snapshot, each as <<family index, metric index>>
MetricKeys == UNION {{<<fi, mi>> : mi \in DOMAIN reg[fi].Metric} : fi \in DOMAIN reg}

FamilyOf(key) == reg[key[1]]
MetricOf(key) == reg[key[1]].Metric[key[2]]

RECURSIVE SegFrom(_, _)
SegFrom(i, key) ==
    IF i > Len(slist) THEN <<>>
    ELSE (IF origin[i] = key THEN <<slist[i]>> ELSE <<>>) \o SegFrom(i + 1, key)

\* the samples the metric key pushed, in push order
Seg(key) == SegFrom(1, key)

\* the name a metric called n is to go out under: n when it carries the
\* instance's prefix already, the prefix and n otherwise
Composed(n) == IF HasPrefix(n, NamePrefix) THEN n ELSE NamePrefix \o n

HasTag(s, k, v) == k \in DOMAIN s.Labels /\ s.Labels[k] = v

\* the value of a plain metric of the given type
PlainValue(type, x) ==
    CASE type = "GAUGE" -> x.Gauge.Value
      [] type = "COUNTER" -> x.Counter.Value
      [] type = "UNTYPED" -> x.Untyped.Value

\* seg is what the histogram strategy gives for metric x called n
HistogramShape(seg, x, n) ==
    LET h == x.Histogram
        k == Len(h.Bucket)
    IN /\ Len(seg) = 3 + k
       /\ seg[1].Metric = Composed(n) \o "_count" /\ seg[1].Value = Num(10 * h.SampleCount)
       /\ seg[2].Metric = Composed(n) \o "_sum" /\ seg[2].Value = h.SampleSum
       /\ seg[3].Metric = Composed(n) \o "_bucket" /\ HasTag(seg[3], "le", "+Inf")
       /\ seg[3].Value = Num(10 * h.SampleCount)
       /\ \A j \in 1..k :
            /\ seg[3 + j].Metric = Composed(n) \o "_bucket"
            /\ HasTag(seg[3 + j], "le", Sprint(h.Bucket[j].UpperBound))
            /\ seg[3 + j].Value = Num(10 * h.Bucket[j].CumulativeCount)

\* seg is what the summary strategy gives for metric x called n
SummaryShape(seg, x, n) ==
    LET su == x.Summary
        k == Len(su.Quantile)
    IN /\ Len(seg) = 2 + k
       /\ seg[1].Metric = Composed(n) \o "_count" /\ seg[1].Value = Num(10 * su.SampleCount)
       /\ seg[2].Metric = Composed(n) \o "_sum" /\ seg[2].Value = su.SampleSum
       /\ \A j \in 1..k :
            /\ seg[2 + j].Metric = Composed(n)
            /\ HasTag(seg[2 + j], "quantile", Sprint(su.Quantile[j].Quantile))
            /\ seg[2 + j].Value = su.Quantile[j].Value

\* seg is what the plain numeric strategy gives for a metric of value v
PlainShape(seg, v, n) ==
    IF v = NaN THEN seg = <<>>
    ELSE Len(seg) = 1 /\ seg[1].Value = v /\ seg[1].Metric = Composed(n)

InfTagged(seg) == {i \in DOMAIN seg : HasTag(seg[i], "le", "+Inf")}
InfBuckets(x) == {j \in DOMAIN x.Histogram.Bucket : x.Histogram.Bucket[j].UpperBound = Inf}

-----------------------------------------------------------------------------
(* C3: the samples of a histogram.                                         *)

\* C3 as amended: for every Histogram metric with k declared buckets,
\* HandleHistogram emits exactly 3 + k samples in this order: <name>_count,
\* <name>_sum, one synthetic <name>_bucket tagged le="+Inf" whose value is the
\* total sample count, then one <name>_bucket per declared bucket in declared
\* order, tagged le=<upper bound> with that bucket's cumulative count; the
\* samples that carry le="+Inf" are the synthetic one and one more for every
\* declared bucket whose upper bound is +Inf.
C3_HistogramSamples ==
    gathered = "ok" =>
        \A key \in MetricKeys :
            FamilyOf(key).Type = "HISTOGRAM" =>
                /\ HistogramShape(Seg(key), MetricOf(key), FamilyOf(key).Name)
                /\ Cardinality(InfTagged(Seg(key))) = 1 + Cardinality(InfBuckets(MetricOf(key)))

\* C3 as stated: the same, with exactly one emitted sample carrying le="+Inf"
C3_ExactlyOneInf ==
    gathered = "ok" =>
        \A key \in MetricKeys :
            FamilyOf(key).Type = "HISTOGRAM" =>
                /\ HistogramShape(Seg(key), MetricOf(key), FamilyOf(key).Name)
                /\ Cardinality(InfTagged(Seg(key))) = 1

\* a histogram of two declared buckets, none of them +Inf, has been flattened
\* into five samples
C3_Witness ==
    /\ gathered = "ok"
    /\ \E key \in MetricKeys :
        /\ FamilyOf(key).Type = "HISTOGRAM"
        /\ Len(MetricOf(key).Histogram.Bucket) = 2
        /\ InfBuckets(MetricOf(key)) = {}
        /\ Len(Seg(key)) = 5

-----------------------------------------------------------------------------
(* C4: no sample without a name, no sample of value NaN.                   *)

\* C4: every sample Gather emits, on any path, has a non-empty name and a
\* value that is not NaN
C4_NoNaNSample ==
    \A i \in DOMAIN slist : slist[i].Metric # "" /\ slist[i].Value # NaN

-----------------------------------------------------------------------------
(* C5: the plain numeric path.                                             *)

\* C5: a Gauge, Counter or Untyped metric of value NaN emits no sample; one
\* of any other value emits exactly one sample, of that value
C5_PlainNumeric ==
    gathered = "ok" =>
        \A key \in MetricKeys :
            FamilyOf(key).Type \in PlainTypes =>
                LET v == PlainValue(FamilyOf(key).Type, MetricOf(key))
                    seg == Seg(key)
                IN IF v = NaN THEN seg = <<>>
                   ELSE Len(seg) = 1 /\ seg[1].Value = v

\* one Gather has met a plain metric of value NaN and dropped it, and a plain
\* metric of another value and emitted it
C5_Witness ==
    /\ gathered = "ok"
    /\ \E k1 \in MetricKeys, k2 \in MetricKeys :
        /\ FamilyOf(k1).Type \in PlainTypes /\ FamilyOf(k2).Type \in PlainTypes
        /\ PlainValue(FamilyOf(k1).Type, MetricOf(k1)) = NaN
        /\ Seg(k1) = <<>>
        /\ PlainValue(FamilyOf(k2).Type, MetricOf(k2)) = Num(15)
        /\ Len(Seg(k2)) = 1

-----------------------------------------------------------------------------
(* C6: the dispatch on the declared kind.                                  *)

\* the samples of key are those of exactly one strategy, the one of its kind
OneStrategy(key) ==
    LET t == FamilyOf(key).Type
        x == MetricOf(key)
        n == FamilyOf(key).Name
    IN /\ t = "SUMMARY" => SummaryShape(Seg(key), x, n)
       /\ t = "HISTOGRAM" => HistogramShape(Seg(key), x, n)
       /\ t \in PlainTypes => PlainShape(Seg(key), PlainValue(t, x), n)

Unrecognised(t) == t \notin PlainTypes \cup {"SUMMARY", "HISTOGRAM"}

\* C6: every metric of any declared kind is dispatched to exactly one
\* flattening strategy; a metric whose declared kind is none of the recognised
\* ones goes to the plain numeric path without error, and that path still
\* emits a sample for it
C6_FallbackEmits ==
    gathered = "ok" =>
        \A key \in MetricKeys :
            /\ OneStrategy(key)
            /\ Unrecognised(FamilyOf(key).Type) => Len(Seg(key)) = 1

-----------------------------------------------------------------------------
(* C7: the tags of a sample.                                               *)

\* the synthetic tag of the j-th sample of a metric of type t
Synthetic(t, x, j) ==
    IF t = "SUMMARY" /\ j > 2
    THEN Map1("quantile", Sprint(x.Summary.Quantile[j - 2].Quantile))
    ELSE IF t = "HISTOGRAM" /\ j = 3 THEN Map1("le", "+Inf")
    ELSE IF t = "HISTOGRAM" /\ j > 3
    THEN Map1("le", Sprint(x.Histogram.Bucket[j - 3].UpperBound))
    ELSE EmptyMap

\* C7: the tags of every sample are the static instance tags, overlaid by
\* the metric's upstream label pairs, overlaid by the strategy's synthetic
\* tag; so every upstream label appears and a synthetic tag overrides a
\* same-named static or upstream tag
C7_TagLayers ==
    gathered = "ok" =>
        \A key \in MetricKeys :
            \A j \in DOMAIN Seg(key) :
                Seg(key)[j].Labels =
                    Overlay(Overlay(Labels, MetricOf(key).Label),
                            Synthetic(FamilyOf(key).Type, MetricOf(key), j))

-----------------------------------------------------------------------------
(* C8: the name of a sample.                                               *)

\* the suffix of the j-th sample of a metric of type t
Suffix(t, j) ==
    IF t \in {"SUMMARY", "HISTOGRAM"} /\ j = 1 THEN "_count"
    ELSE IF t \in {"SUMMARY", "HISTOGRAM"} /\ j = 2 THEN "_sum"
    ELSE IF t = "HISTOGRAM" THEN "_bucket"
    ELSE ""

\* the name of a sample without its suffix
Stem(name, suffix) == SubSeq(name, 1, Len(name) - Len(suffix))

\* C8: on all three paths, a sample of a metric whose name starts with the
\* configured prefix goes out under that name unchanged, one whose name lacks
\* the prefix under prefix + name, each before the suffix of its position;
\* and composing the name that went out once more, on any path, leaves it
\* unchanged
C8_NameIdempotent ==
    gathered = "ok" =>
        \A key \in MetricKeys :
            \A j \in DOMAIN Seg(key) :
                LET n == FamilyOf(key).Name
                    suffix == Suffix(FamilyOf(key).Type, j)
                    out == Seg(key)[j].Metric
                    stem == Stem(out, suffix)
                IN /\ out = stem \o suffix
                   /\ HasPrefix(n, NamePrefix) => stem = n
                   /\ ~HasPrefix(n, NamePrefix) => stem = NamePrefix \o n
                   /\ GaugeName(ins, stem) = stem
                   /\ BuildMetric(SuffixedPrefix(ins, stem), stem, "") = stem

\* under a non-empty prefix, one Gather has named a metric that carries the
\* prefix and one that lacks it, on the suffixed path and on the plain path
C8_Witness ==
    /\ gathered = "ok"
    /\ NamePrefix = "p_"
    /\ \E k1 \in MetricKeys, k2 \in MetricKeys :
        /\ FamilyOf(k1).Name = "p_rq" /\ FamilyOf(k1).Type = "HISTOGRAM"
        /\ Seg(k1)[1].Metric = "p_rq_count"
        /\ FamilyOf(k2).Name = "rq" /\ FamilyOf(k2).Type = "GAUGE"
        /\ Len(Seg(k2)) = 1
        /\ Seg(k2)[1].Metric = "p_rq"

-----------------------------------------------------------------------------
(* SpecLife: the Init and Drop of an mtail instance, in any order.         *)

\* context.WithCancel(context.Background()): Init makes at most one context,
\* since ins.cancel is never reset
WithCancel == "ctx1"

Last(seq) == seq[Len(seq)]

\* a Drop on a nil ins.cancel has panicked: the process is gone
Panicked == calls # <<>> /\ Last(calls) = "DropPanic"

InitLife ==
    /\ cfgEmpty \in BOOLEAN
    /\ cancel = Nil
    /\ ctx = Nil
    /\ cancelled = {}
    /\ m = Nil
    /\ calls = <<>>
    /\ MtailIdle
    /\ GithubIdle

\* Init with no programs or no logs configured: types.ErrInstancesEmpty
InsInitEmpty ==
    /\ cfgEmpty
    /\ calls' = Append(calls, "InitEmpty")
    /\ UNCHANGED <<cfgEmpty, cancel, ctx, cancelled, m>>

\* the context and cancel function Init goes on with, and the contexts
\* cancelled by then: a cancel left by an earlier Init is called and kept,
\* a new context is made only when there is none
InitContext ==
    IF cancel # Nil
    THEN [ctx |-> ctx, cancel |-> cancel, cancelled |-> cancelled \cup {cancel}]
    ELSE [ctx |-> WithCancel, cancel |-> WithCancel, cancelled |-> cancelled]

\* Init, mtail.GetRegistry succeeding: the registry runs on ins.ctx
InsInitOk ==
    /\ ~cfgEmpty
    /\ ctx' = InitContext.ctx
    /\ cancel' = InitContext.cancel
    /\ cancelled' = InitContext.cancelled
    /\ m' = InitContext.ctx
    /\ calls' = Append(calls, "InitOk")
    /\ UNCHANGED cfgEmpty

\* Init, mtail.GetRegistry failing: the context is cancelled, ins.m is kept
InsInitErr ==
    /\ ~cfgEmpty
    /\ ctx' = InitContext.ctx
    /\ cancel' = InitContext.cancel
    /\ cancelled' = InitContext.cancelled \cup {InitContext.cancel}
    /\ calls' = Append(calls, "InitErr")
    /\ UNCHANGED <<cfgEmpty, m>>

InsInit ==
    /\ ~Panicked
    /\ Len(calls) < MaxCalls
    /\ \/ InsInitEmpty
       \/ InsInitOk
       \/ InsInitErr
    /\ UNCHANGED <<mtailVars, githubVars>>

\* Drop: ins.cancel(), a nil function when no Init has set it
Drop ==
    /\ ~Panicked
    /\ Len(calls) < MaxCalls
    /\ \/ /\ cancel # Nil
          /\ cancelled' = cancelled \cup {cancel}
          /\ calls' = Append(calls, "Drop")
       \/ /\ cancel = Nil
          /\ cancelled' = cancelled
          /\ calls' = Append(calls, "DropPanic")
    /\ UNCHANGED <<cfgEmpty, cancel, ctx, m>>
    /\ UNCHANGED <<mtailVars, githubVars>>

NextLife == InsInit \/ Drop

SpecLife == InitLife /\ [][NextLife]_vars

\* C10: whenever the most recent Init returned success and Drop has not been
\* called since, the context Init passed to the registry is not cancelled: a
\* second Init on an initialised instance builds its registry on a live
\* context
C10_LiveContext ==
    (calls # <<>> /\ Last(calls) = "InitOk") => m \notin cancelled

\* the last clause of C10 on its own: no Drop has run with ins.cancel unset
DropHasCancel == \A i \in DOMAIN calls : calls[i] # "DropPanic"

-----------------------------------------------------------------------------
(* package github.  The model follows one tick: ticks share nothing but    *)
(* ins.githubClient, which the first of them sets.                         *)

inputName == "jenkins"

RECURSIVE IndexFrom(_, _, _)
\* the first index from i on at which s holds the character c, or 0
IndexFrom(s, c, i) ==
    IF i > Len(s) THEN 0
    ELSE IF SubSeq(s, i, i) = c THEN i
    ELSE IndexFrom(s, c, i + 1)

\* splitRepositoryName(repositoryName): strings.SplitN(name, "/", 2) gives two
\* parts exactly when the name holds a "/"
splitRepositoryName(repositoryName) ==
    LET at == IndexFrom(repositoryName, "/", 1)
    IN IF at = 0
       THEN [owner |-> "", repository |-> "", err |-> TRUE]
       ELSE [owner |-> SubSeq(repositoryName, 1, at - 1),
             repository |-> SubSeq(repositoryName, at + 1, Len(repositoryName)),
             err |-> FALSE]

\* what the API holds for a repository: the record Repositories.Get returns
\* when it succeeds
RepositoryInfo(owner, repository) ==
    [Owner |-> owner, Name |-> repository, Language |-> "Go",
     License |-> IF owner = "octocat" THEN "MIT" ELSE "",
     StargazersCount |-> 7, SubscribersCount |-> 6, WatchersCount |-> 5,
     NetworkCount |-> 4, ForksCount |-> 3, OpenIssuesCount |-> 2, Size |-> 1]

\* what the API holds for a search: the total Search.Issues returns when it
\* succeeds
SearchTotal(class) == IF class = "open" THEN 8 ELSE 9

\* getLicense(rI)
getLicense(rI) == IF rI.License # "" THEN rI.License ELSE "None"

\* getTags(repositoryInfo)
getTags(repositoryInfo) ==
    [owner |-> repositoryInfo.Owner, name |-> repositoryInfo.Name,
     language |-> repositoryInfo.Language, license |-> getLicense(repositoryInfo)]

\* getFields(repositoryInfo)
getFields(repositoryInfo) ==
    [stars |-> repositoryInfo.StargazersCount,
     subscribers |-> repositoryInfo.SubscribersCount,
     watchers |-> repositoryInfo.WatchersCount,
     networks |-> repositoryInfo.NetworkCount,
     forks |-> repositoryInfo.ForksCount,
     open_issues |-> repositoryInfo.OpenIssuesCount,
     size |-> repositoryInfo.Size]

\* the state classes of getPullRequestFields, in its order
classes == <<"open", "closed">>

\* slist.PushSamples(inputName, fields, tags): the fields of one repository
\* reach the sink together
PushSamples(sl, i, name, fields, tags) ==
    Append(sl, [repo |-> i, name |-> name, fields |-> fields, tags |-> tags])

\* a goroutine as the go statement leaves it
NewTask(repositoryName) ==
    [pc |-> "start", repositoryName |-> repositoryName, owner |-> "", repository |-> "",
     tags |-> EmptyMap, fields |-> EmptyMap, fi |-> 1, ci |-> 1, addFields |-> EmptyMap,
     calls |-> <<>>, log |-> <<>>]

\* the goroutine returns: the deferred wg.Done() runs
Return(t) == [t EXCEPT !.pc = "done"]

RECURSIVE NextField(_)
\* the loop over ins.AdditionalFields from entry t.fi on, up to its next call
\* of the API: an unknown field is logged and passed over, "pull-requests"
\* enters getPullRequestFields, the end of the list leads to the push
NextField(t) ==
    IF t.fi > Len(AdditionalFields) THEN [t EXCEPT !.pc = "push"]
    ELSE IF AdditionalFields[t.fi] = "pull-requests"
    THEN [t EXCEPT !.pc = "search", !.ci = 1, !.addFields = EmptyMap]
    ELSE NextField([t EXCEPT !.fi = @ + 1,
                             !.log = Append(@, "E! unknown additional field")])

\* the goroutine's first step: splitRepositoryName
SplitStep(t) ==
    LET r == splitRepositoryName(t.repositoryName)
    IN IF r.err
       THEN Return([t EXCEPT !.log = Append(@, "E! splitRepositoryName")])
       ELSE [t EXCEPT !.pc = "get", !.owner = r.owner, !.repository = r.repository]

\* GetFailed without the return: the goroutine goes on to its push
GetFailedNoReturn(t) ==
    NextField([t EXCEPT !.calls = Append(@, [call |-> "get", fi |-> 0, ok |-> FALSE]),
                        !.log = Append(@, "E! get repositoryInfo err"),
                        !.fi = 1])

\* ins.githubClient.Repositories.Get failing
GetFailed(t) ==
    Return([t EXCEPT !.calls = Append(@, [call |-> "get", fi |-> 0, ok |-> FALSE]),
                     !.log = Append(@, "E! get repositoryInfo err")])

\* ins.githubClient.Repositories.Get succeeding: the tags and the primary
\* fields are taken, then the additional fields are gone through
GetSucceeded(t) ==
    LET repositoryInfo == RepositoryInfo(t.owner, t.repository)
    IN NextField([t EXCEPT !.calls = Append(@, [call |-> "get", fi |-> 0, ok |-> TRUE]),
                           !.tags = getTags(repositoryInfo),
                           !.fields = getFields(repositoryInfo),
                           !.fi = 1])

\* SearchFailed with a return in place of the continue: the goroutine ends
SearchFailedReturns(t) ==
    Return([t EXCEPT !.calls = Append(@, [call |-> classes[t.ci], fi |-> t.fi, ok |-> FALSE]),
                     !.log = @ \o <<"E! github search failed",
                                    "E! get PullRequestFields err">>])

\* Search.Issues failing inside getPullRequestFields: it returns the error,
\* the goroutine logs it and continues with the next additional field
SearchFailed(t) ==
    NextField([t EXCEPT !.calls = Append(@, [call |-> classes[t.ci], fi |-> t.fi, ok |-> FALSE]),
                        !.log = @ \o <<"E! github search failed",
                                       "E! get PullRequestFields err">>,
                        !.addFields = EmptyMap,
                        !.fi = @ + 1])

\* Search.Issues succeeding inside getPullRequestFields: the class's total is
\* kept; after the last class the fields are merged into the goroutine's
SearchSucceeded(t) ==
    LET f == classes[t.ci] \o "_pull_requests"
        addFields == Overlay(t.addFields, Map1(f, SearchTotal(classes[t.ci])))
        called == Append(t.calls, [call |-> classes[t.ci], fi |-> t.fi, ok |-> TRUE])
    IN IF t.ci < Len(classes)
       THEN [t EXCEPT !.calls = called, !.addFields = addFields, !.ci = @ + 1]
       ELSE NextField([t EXCEPT !.calls = called, !.addFields = EmptyMap,
                                !.fields = Overlay(@, addFields),
                                !.fi = @ + 1])

-----------------------------------------------------------------------------
(* SpecGithub: a configured github instance and one tick of its Gather.    *)

RepoNames == {"octocat/Hello-World", "badid"}
FieldNames == {"pull-requests", "stars"}

InitGithub ==
    /\ Repositories \in SeqsUpTo(RepoNames, MaxRepos)
    /\ AdditionalFields \in SeqsUpTo(FieldNames, MaxFields)
    /\ githubClient \in {Nil, "client"}
    /\ returned = FALSE
    /\ wg = 0
    /\ task = <<>>
    /\ sink = <<>>
    /\ gatherLog = <<>>
    /\ MtailIdle
    /\ LifeIdle

\* Gather, createGitHubClient failing: logged, no goroutine is launched
GatherNoClient ==
    /\ githubClient = Nil
    /\ gatherLog' = Append(gatherLog, "E! failed to new githubClient")
    /\ returned' = TRUE
    /\ UNCHANGED <<githubClient, wg, task, sink>>

\* Gather with a client: one goroutine per repository is launched and the
\* call returns; the WaitGroup is added to and never waited on
GatherFanOut ==
    /\ githubClient' = "client"
    /\ wg' = wg + Len(Repositories)
    /\ task' = [i \in DOMAIN Repositories |-> NewTask(Repositories[i])]
    /\ returned' = TRUE
    /\ UNCHANGED <<sink, gatherLog>>

GithubGather ==
    /\ ~returned
    /\ \/ GatherNoClient
       \/ GatherFanOut
    /\ UNCHANGED <<Repositories, AdditionalFields>>
    /\ UNCHANGED <<mtailVars, lifeVars>>

\* the wg.Done() of a goroutine that has just returned
Done(before, after) == IF after.pc = "done" /\ before.pc # "done" THEN wg - 1 ELSE wg

\* goroutine i splits its repository name
TaskSplit(i) ==
    /\ task[i].pc = "start"
    /\ task' = [task EXCEPT ![i] = SplitStep(@)]
    /\ wg' = Done(task[i], task'[i])
    /\ UNCHANGED <<sink>>

\* goroutine i fetches its repository
TaskGet(i) ==
    /\ task[i].pc = "get"
    /\ \/ task' = [task EXCEPT ![i] = GetFailed(@)]
       \/ task' = [task EXCEPT ![i] = GetSucceeded(@)]
    /\ wg' = Done(task[i], task'[i])
    /\ UNCHANGED <<sink>>

\* goroutine i searches the pull requests of one state class
TaskSearch(i) ==
    /\ task[i].pc = "search"
    /\ \/ task' = [task EXCEPT ![i] = SearchFailed(@)]
       \/ task' = [task EXCEPT ![i] = SearchSucceeded(@)]
    /\ wg' = Done(task[i], task'[i])
    /\ UNCHANGED <<sink>>

\* goroutine i pushes its fields and returns
TaskPush(i) ==
    /\ task[i].pc = "push"
    /\ sink' = PushSamples(sink, i, inputName, task[i].fields, task[i].tags)
    /\ task' = [task EXCEPT ![i] = Return(@)]
    /\ wg' = Done(task[i], task'[i])

TaskStep ==
    /\ \E i \in DOMAIN task :
        \/ TaskSplit(i)
        \/ TaskGet(i)
        \/ TaskSearch(i)
        \/ TaskPush(i)
    /\ UNCHANGED <<Repositories, AdditionalFields, githubClient, returned, gatherLog>>
    /\ UNCHANGED <<mtailVars, lifeVars>>

NextGithub == GithubGather \/ TaskStep

SpecGithub == InitGithub /\ [][NextGithub]_vars

-----------------------------------------------------------------------------
(* Reading the outcome of a tick.                                          *)

RECURSIVE Pushed(_, _)
\* what goroutine i has pushed among the first n entries of the sink
Pushed(i, n) ==
    IF n = 0 THEN <<>>
    ELSE Pushed(i, n - 1) \o (IF sink[n].repo = i THEN <<sink[n]>> ELSE <<>>)

\* what goroutine i has pushed
Contribution(i) == Pushed(i, Len(sink))

\* the identifier of entity i does not split into owner and repository
Malformed(i) == \A k \in 1..Len(Repositories[i]) : SubSeq(Repositories[i], k, k) # "/"

\* the primary fetch of entity i has failed
PrimaryFailed(i) == \E k \in DOMAIN task[i].calls :
                        task[i].calls[k].call = "get" /\ ~task[i].calls[k].ok

\* the primary fetch of entity i has succeeded
PrimaryFetched(i) == \E k \in DOMAIN task[i].calls :
                        task[i].calls[k].call = "get" /\ task[i].calls[k].ok

Failing(i) == Malformed(i) \/ PrimaryFailed(i)

\* the steps of goroutine i
TaskOf(i) == TaskSplit(i) \/ TaskGet(i) \/ TaskSearch(i) \/ TaskPush(i)

Count(seq, x) == Cardinality({k \in DOMAIN seq : seq[k] = x})

-----------------------------------------------------------------------------
(* C1: Gather and its goroutines.                                          *)

\* C1: once the Gather call has returned, every goroutine it launched has
\* completed, so that none pushes to the sink after the return
C1_GatherJoins ==
    returned => wg = 0 /\ \A i \in DOMAIN task : task[i].pc = "done"

-----------------------------------------------------------------------------
(* C2: the goroutines do not touch one another.                            *)

\* C2: a failing entity (malformed identifier or failed primary fetch) ends
\* having contributed nothing, every other entity ends having contributed its
\* own samples, whatever the other goroutines did; a goroutine that has not
\* ended can always take its next step, and Gather returns whoever fails
C2_FanOutIsolation ==
    \A i \in DOMAIN task :
        /\ returned
        /\ Failing(i) => Contribution(i) = <<>>
        /\ task[i].pc = "done" /\ ~Failing(i) =>
            /\ Len(Contribution(i)) = 1
            /\ LET own == splitRepositoryName(Repositories[i])
               IN /\ Contribution(i)[1].tags.owner = own.owner
                  /\ Contribution(i)[1].tags.name = own.repository
                  /\ Contribution(i)[1].fields.stars =
                        RepositoryInfo(own.owner, own.repository).StargazersCount
        /\ task[i].pc # "done" => ENABLED TaskOf(i)

\* both goroutines of a tick have ended, one of a malformed identifier with
\* nothing pushed, the other with its samples in the sink
C2_Witness ==
    /\ returned
    /\ \A i \in DOMAIN task : task[i].pc = "done"
    /\ \E i \in DOMAIN task, j \in DOMAIN task :
        /\ Malformed(i) /\ Contribution(i) = <<>>
        /\ ~Failing(j) /\ Len(Contribution(j)) = 1

-----------------------------------------------------------------------------
(* C9: the additional fields of an entity.                                 *)

\* the keys getPullRequestFields adds
PullRequestKeys == {"open_pull_requests", "closed_pull_requests"}

\* C9: the additional-field fetches of an entity run after its primary fetch
\* has succeeded, class by class, open before closed; a failed fetch is
\* reported and ends its request, whose remaining class is not fetched; and
\* an entity whose primary fetch succeeded ends having pushed its primary
\* fields, with the pull-request counts only of requests that went through
C9_AdditionalFields ==
    \A i \in DOMAIN task :
        LET c == task[i].calls
            failed == {k \in DOMAIN c : c[k].call # "get" /\ ~c[k].ok}
        IN /\ \A k \in DOMAIN c :
                /\ (c[k].call = "get") = (k = 1)
                /\ k > 1 => c[1].ok
                /\ c[k].call = "closed" =>
                    c[k - 1].call = "open" /\ c[k - 1].ok /\ c[k - 1].fi = c[k].fi
                /\ (c[k].call = "open" /\ k > 2) =>
                    /\ c[k - 1].fi < c[k].fi
                    /\ c[k - 1].call = "closed" \/ ~c[k - 1].ok
                /\ (k \in failed /\ k < Len(c)) => c[k + 1].fi > c[k].fi
           /\ Count(task[i].log, "E! get PullRequestFields err") = Cardinality(failed)
           /\ (task[i].pc = "done" /\ PrimaryFetched(i)) =>
                /\ Len(Contribution(i)) = 1
                /\ LET own == splitRepositoryName(Repositories[i])
                       primary == getFields(RepositoryInfo(own.owner, own.repository))
                       got == Contribution(i)[1].fields
                   IN /\ \A f \in DOMAIN primary : f \in DOMAIN got /\ got[f] = primary[f]
                      /\ (\E k \in DOMAIN c : c[k].call = "closed" /\ c[k].ok)
                            <=> PullRequestKeys \subseteq DOMAIN got
                      /\ (\A k \in DOMAIN c : c[k].call = "closed" => ~c[k].ok)
                            <=> PullRequestKeys \cap DOMAIN got = {}

\* an entity's fetch of the closed pull requests failed after its primary
\* fetch and its fetch of the open ones had succeeded, and it has pushed its
\* primary fields without pull-request counts
C9_Witness ==
    \E i \in DOMAIN task :
        /\ task[i].pc = "done"
        /\ Len(task[i].calls) = 3
        /\ task[i].calls[1].ok /\ task[i].calls[2].ok
        /\ task[i].calls[3].call = "closed" /\ ~task[i].calls[3].ok
        /\ Len(Contribution(i)) = 1
        /\ Contribution(i)[1].fields.stars = 7
        /\ PullRequestKeys \cap DOMAIN Contribution(i)[1].fields = {}

====
